---- MODULE Spec2Model ----
(***************************************************************************)
(* Model of function_app.py: the two HTTP handlers of the Azure Function   *)
(* (start_container_instance, get_results), their helpers, and the two     *)
(* external collaborators they talk to (the "comments" file share with its *)
(* data_in / data_out directories, and the container groups of the         *)
(* resource group).  A handler is a sequence of steps, one per call into a *)
(* collaborator, so that concurrent requests interleave as they do in the  *)
(* function host.                                                          *)
(***************************************************************************)
EXTENDS Integers, Sequences, FiniteSets, TLC

\* ------------------------------------------------------------------ bounds
\* Number of run identifiers (uuid4 values) in the universe.
MaxIds == 2
\* Longest batch (number of records of the submitted json array).
MaxBatch == 2

\* --------------------------------------------------------------- universe
IDs == 1..MaxIds
\* Concurrent GetResults requests.
Pollers == {"p1", "p2"}
\* Contents the container may write to data_out/<run_id>.json.
Outputs == {"o1", "o2"}
None == "none"

\* A record of the batch is represented by its key set.
expected_keys == {"comment_id", "comment_text", "question_type"}
KeySets ==
    { expected_keys,
      {"comment_id", "comment_text"},
      expected_keys \cup {"extra"} }

\* A request body: the json text is a sequence of records plus a layout
\* (two bodies with different layout parse to the same batch).
Batches == UNION { [1..n -> KeySets] : n \in 0..MaxBatch }
Bodies == [layout : {"compact", "spaced"}, recs : Batches]

\* req.get_json(): the parsed batch forgets the layout of the bytes.
get_json(body) == body.recs

\* URLs are sequences of segments; the start url carries the route name.
StartUrls ==
    { <<"https://host/api/", "StartContainerInstance">>,
      <<"https://host/api/", "StartContainerInstance", "?code=key">> }

\* str.replace(old, new): every occurrence of old becomes new.
Replace(url, old, new) ==
    [i \in 1..Len(url) |-> IF url[i] = old THEN new ELSE url[i]]

GetResultsRoute(run_id) == "GetResults/" \o ToString(run_id)

\* The url of a GetResults/{run_id} request.
PollUrl(run_id) == <<"https://host/api/", GetResultsRoute(run_id)>>

\* ------------------------------------------------------------------ state
VARIABLES
    groups,     \* container groups: run_id -> [vis, state, detail, deleting]
    data_in,    \* share directory data_in:  run_id -> body or NoFile
    data_out,   \* share directory data_out: run_id -> output or None
    used,       \* identifiers uuid4 has produced so far
    spc,        \* position of the StartContainerInstance request
    sreq,       \* its request: [body, url]
    sid,        \* its run_id
    sresp,      \* its response
    pc,         \* position of each GetResults request
    pid,        \* its run_id route parameter
    obs,        \* container: what it read from the container group
    buf,        \* file_bytes: what it downloaded
    resp,       \* its response
    delivered,  \* history: number of 200 responses per run (capped at 2)
    quiet,      \* history: "fresh" nothing changed since this poll began,
                \* "armed" the last poll was 202 and nothing changed since,
                \* "repeat" this poll repeats such a poll, "no" otherwise
    after       \* history: the poll began after a 200 for its run

ext == <<groups, data_in, data_out>>
svars == <<spc, sreq, sid, sresp, used>>
pvars == <<pc, pid, obs, buf, resp>>
hist == <<delivered, quiet, after>>
vars == <<groups, data_in, data_out, used, spc, sreq, sid, sresp,
          pc, pid, obs, buf, resp, delivered, quiet, after>>

NoGroup == [vis |-> "none", state |-> None, detail |-> None, deleting |-> FALSE]
NoFile == [layout |-> None, recs |-> <<>>]
NoReq == [body |-> NoFile, url |-> <<>>]
NoResp == [status |-> 0, body |-> <<>>]
\* ResourceNotFoundError of container_groups.get
NotFound == [found |-> FALSE, state |-> None, detail |-> None]

Init ==
    /\ groups = [j \in IDs |-> NoGroup]
    /\ data_in = [j \in IDs |-> NoFile]
    /\ data_out = [j \in IDs |-> None]
    /\ used = {}
    /\ spc = "idle"
    /\ sreq = NoReq
    /\ sid = 0
    /\ sresp = NoResp
    /\ pc = [p \in Pollers |-> "idle"]
    /\ pid = [p \in Pollers |-> 0]
    /\ obs = [p \in Pollers |-> NotFound]
    /\ buf = [p \in Pollers |-> None]
    /\ resp = [p \in Pollers |-> NoResp]
    /\ delivered = [j \in IDs |-> 0]
    /\ quiet = [p \in Pollers |-> "no"]
    /\ after = [p \in Pollers |-> FALSE]

\* A change of run j's external state by anyone but poller self ends the
\* "nothing changed" history of the other requests for j.
Disturb(j, self) ==
    [q \in Pollers |-> IF q # self /\ pid[q] = j THEN "no" ELSE quiet[q]]

\* History kept when a poll responds with the given status.
Responded(self, status) ==
    [quiet EXCEPT ![self] =
        IF @ = "repeat" THEN "repeat"
        ELSE IF @ = "fresh" /\ status = 202 THEN "armed"
        ELSE "no"]

\* ------------------------------------------- POST StartContainerInstance
\* Variant: an identifier generator that can repeat itself.
uuid4_repeating == IDs

\* uuid.uuid4(): a random identifier, different from every one drawn before.
\* Identifiers are interchangeable, so they are drawn in increasing order.
uuid4 == {j \in IDs \ used : \A k \in IDs \ used : j <= k}

\* Variant: only the first record is checked.
ValidFirstRecord(comments) ==
    Len(comments) = 0 \/ comments[1] = expected_keys

\* for i in comments: assert set(i.keys()) == expected_keys
ValidBatch(comments) ==
    \A i \in 1..Len(comments) : comments[i] = expected_keys

\* The unhandled AssertionError: the function host answers 500.
AssertionResp == [status |-> 500, body |-> <<"AssertionError: invalid json">>]
\* Variant: a file that is not there is answered like a collected job.
MissingFileAsCollected ==
    [status |-> 404, body |-> <<"File already collected">>]

\* An unhandled exception of a collaborator: the function host answers 500.
ExceptionResp == [status |-> 500, body |-> <<"unhandled exception">>]

\* Variant: the parsed batch is serialised again and that is uploaded.
upload_comments_reencoded(comments, run_id) ==
    [data_in EXCEPT ![run_id] =
        [layout |-> "compact", recs |-> get_json(comments)]]

\* Variant: the upload is lost.
upload_comments_lost(comments, run_id) == data_in

\* _upload_comments(comments, run_id): upload_file to data_in/<run_id>.json
upload_comments(comments, run_id) ==
    [data_in EXCEPT ![run_id] = comments]

\* _create_and_start_container(run_id): begin_create_or_update of the group
\* aci-px-<run_id>; the request is accepted and the group appears later.
create_and_start_container(run_id) ==
    [groups EXCEPT ![run_id] =
        IF @.vis = "none"
        THEN [vis |-> "requested", state |-> None, detail |-> None,
              deleting |-> FALSE]
        ELSE @]

\* results_url = req.url.replace("StartContainerInstance", f"GetResults/{run_id}")
results_url(url, run_id) ==
    Replace(url, "StartContainerInstance", GetResultsRoute(run_id))

\* Lines 46-52: draw the run id, parse the body, check every record.
SubmitStart(body, url) ==
    /\ spc \in {"idle", "done"}
    /\ \E run_id \in uuid4 :
        /\ sid' = run_id
        /\ used' = used \cup {run_id}
    /\ sreq' = [body |-> body, url |-> url]
    /\ IF ValidBatch(get_json(body))
       THEN spc' = "upload" /\ sresp' = NoResp
       ELSE spc' = "done" /\ sresp' = AssertionResp
    /\ UNCHANGED <<ext, pvars, hist>>

\* Line 55: the bytes of the body go to the share.
SubmitUpload ==
    /\ spc = "upload"
    /\ data_in' = upload_comments(sreq.body, sid)
    /\ spc' = "create"
    /\ quiet' = Disturb(sid, None)
    /\ UNCHANGED <<groups, data_out, used, sreq, sid, sresp, pvars,
                   delivered, after>>

\* Lines 56-59: request the container group, answer 202 with the poll url.
SubmitCreate ==
    /\ spc = "create"
    /\ groups' = create_and_start_container(sid)
    /\ sresp' = [status |-> 202, body |-> results_url(sreq.url, sid)]
    /\ spc' = "done"
    /\ quiet' = Disturb(sid, None)
    /\ UNCHANGED <<data_in, data_out, used, sreq, sid, pvars,
                   delivered, after>>

\* Variant: a failed creation removes the file uploaded for the run.
SubmitCreateFailsRollback ==
    /\ spc = "create"
    /\ sresp' = ExceptionResp
    /\ spc' = "done"
    /\ data_in' = [data_in EXCEPT ![sid] = NoFile]
    /\ UNCHANGED <<groups, data_out, used, sreq, sid, pvars, hist>>

\* Line 56 when begin_create_or_update raises (credentials, quota, transport):
\* nothing catches it, the function host answers 500; the upload of line 55
\* is not undone.
SubmitCreateFails ==
    /\ spc = "create"
    /\ sresp' = ExceptionResp
    /\ spc' = "done"
    /\ UNCHANGED <<ext, used, sreq, sid, pvars, hist>>

\* ------------------------------------------------ GET GetResults/{run_id}
\* client.container_groups.get(...).containers[0].instance_view.current_state
current_state(run_id) ==
    IF groups[run_id].vis = "exists"
    THEN [found |-> TRUE, state |-> groups[run_id].state,
          detail |-> groups[run_id].detail]
    ELSE NotFound

\* Variant: any file in data_in counts.
check_for_any_file(run_id) ==
    LET files == {f \in IDs : data_in[f] # NoFile}
    IN  files # {}

\* Variant: a file whose container group was never requested does not count.
check_for_file_of_group(run_id) ==
    LET files == {f \in IDs : data_in[f] # NoFile /\ groups[f].vis # "none"}
    IN  run_id \in files

\* _check_for_file(run_id): list data_in, strip ".json", test membership.
check_for_file(run_id) ==
    LET files == {f \in IDs : data_in[f] # NoFile}
    IN  run_id \in files

\* Variant: a failed run is cleaned up like a completed one.
BranchCleanupOnFailure(container) ==
    IF ~container.found THEN "check"
    ELSE IF container.state # "Terminated" THEN "pending"
    ELSE "delete"

\* Variant: the input file is consulted before the container state.
BranchFilesFirst(container) ==
    IF ~container.found \/ container.state # "Terminated" THEN "check"
    ELSE IF container.detail = "Completed" THEN "delete"
    ELSE "failed"

\* Lines 98-115: where get_results goes after reading the container state.
Branch(container) ==
    IF ~container.found THEN "check"
    ELSE IF container.state # "Terminated" THEN "pending"
    ELSE IF container.detail = "Completed" THEN "delete"
    ELSE "failed"

PendingResp(run_id) == [status |-> 202, body |-> PollUrl(run_id)]
CollectedResp == [status |-> 404, body |-> <<"File already collected">>]
FailedResp == [status |-> 500, body |-> <<"Error during processing">>]
CompletedResp(file_bytes) == [status |-> 200, body |-> <<file_bytes>>]

\* The response get_results gives without any further call.
Answer(branch, run_id) ==
    IF branch = "pending" THEN PendingResp(run_id) ELSE FailedResp

\* A request arrives: the route parameter is any identifier.  The history
\* of the request is kept when history is TRUE.
PollStart(self, run_id, history) ==
    /\ pc[self] \in {"idle", "done"}
    /\ pc' = [pc EXCEPT ![self] = "get"]
    /\ pid' = [pid EXCEPT ![self] = run_id]
    /\ obs' = [obs EXCEPT ![self] = NotFound]
    /\ buf' = [buf EXCEPT ![self] = None]
    /\ resp' = [resp EXCEPT ![self] = NoResp]
    /\ quiet' = [quiet EXCEPT ![self] =
                    IF ~history THEN "no"
                    ELSE IF pid[self] = run_id /\ @ \in {"armed", "repeat"}
                    THEN "repeat" ELSE "fresh"]
    /\ after' = [after EXCEPT ![self] = history /\ delivered[run_id] > 0]
    /\ UNCHANGED <<ext, svars, delivered>>

\* Lines 92-109 and 115: read the container state and branch on it.
PollGet(self) ==
    /\ pc[self] = "get"
    /\ LET container == current_state(pid[self])
           branch == Branch(container)
       IN  /\ IF branch \in {"check", "delete"}
              THEN /\ pc' = [pc EXCEPT ![self] = branch]
                   /\ obs' = [obs EXCEPT ![self] = container]
                   /\ UNCHANGED <<resp, quiet>>
              ELSE /\ pc' = [pc EXCEPT ![self] = "done"]
                   /\ obs' = obs
                   /\ resp' = [resp EXCEPT ![self] = Answer(branch, pid[self])]
                   /\ quiet' = Responded(self, resp'[self].status)
    /\ UNCHANGED <<ext, svars, pid, buf, delivered, after>>

\* Variant: the check removes the input file it finds.
PollCheckConsuming(self) ==
    /\ pc[self] = "check"
    /\ resp' = [resp EXCEPT ![self] =
                   IF ~check_for_file(pid[self])
                   THEN CollectedResp ELSE PendingResp(pid[self])]
    /\ data_in' = [data_in EXCEPT ![pid[self]] = NoFile]
    /\ pc' = [pc EXCEPT ![self] = "done"]
    /\ obs' = [obs EXCEPT ![self] = NotFound]
    /\ quiet' = Responded(self, resp'[self].status)
    /\ UNCHANGED <<groups, data_out, svars, pid, buf, delivered, after>>

\* Lines 101-104: the group was not found; look for the input file.
PollCheck(self) ==
    /\ pc[self] = "check"
    /\ resp' = [resp EXCEPT ![self] =
                   IF ~check_for_file(pid[self])
                   THEN CollectedResp ELSE PendingResp(pid[self])]
    /\ pc' = [pc EXCEPT ![self] = "done"]
    /\ obs' = [obs EXCEPT ![self] = NotFound]
    /\ quiet' = Responded(self, resp'[self].status)
    /\ UNCHANGED <<ext, svars, pid, buf, delivered, after>>

\* Variant: the deletion of the group is never requested.
begin_delete_skipped(run_id) == groups

\* Variant: the deletion is not restricted to the group of the run.
begin_delete_every(run_id) ==
    [j \in IDs |-> [groups[j] EXCEPT !.deleting = (groups[j].vis = "exists")]]

\* client.container_groups.begin_delete(...): deleting a group that is gone
\* is accepted too.
begin_delete(run_id) ==
    [groups EXCEPT ![run_id].deleting = (groups[run_id].vis = "exists")]

\* Line 112: the deletion is requested and not awaited.
PollBeginDelete(self) ==
    /\ pc[self] = "delete"
    /\ groups' = begin_delete(pid[self])
    /\ pc' = [pc EXCEPT ![self] = "download"]
    /\ quiet' = IF groups' # groups THEN Disturb(pid[self], self) ELSE quiet
    /\ UNCHANGED <<data_in, data_out, svars, pid, obs, buf, resp,
                   delivered, after>>

\* Variant: the download fails whether the file is there or not.
download_always_raises(run_id) == TRUE

\* download_file() of data_out/<run_id>.json raises ResourceNotFoundError
\* when the file is not there.
download_raises(run_id) == data_out[run_id] = None

\* Variant: deleting a file that is gone is not an error.
delete_never_raises(run_id) == FALSE

\* delete_file() of data_out/<run_id>.json raises ResourceNotFoundError
\* when the file is not there.
delete_raises(run_id) == data_out[run_id] = None

\* Line 204: download_file().readall().
PollDownload(self) ==
    /\ pc[self] = "download"
    /\ IF download_raises(pid[self])
       THEN /\ resp' = [resp EXCEPT ![self] = ExceptionResp]
            /\ pc' = [pc EXCEPT ![self] = "done"]
            /\ obs' = [obs EXCEPT ![self] = NotFound]
            /\ quiet' = Responded(self, 500)
            /\ buf' = buf
       ELSE /\ buf' = [buf EXCEPT ![self] = data_out[pid[self]]]
            /\ pc' = [pc EXCEPT ![self] = "rmfile"]
            /\ UNCHANGED <<resp, quiet, obs>>
    /\ UNCHANGED <<ext, svars, pid, delivered, after>>

\* Lines 205-207 and 113: delete_file, answer 200 with the bytes downloaded.
PollDeleteFile(self) ==
    /\ pc[self] = "rmfile"
    /\ IF delete_raises(pid[self])
       THEN /\ resp' = [resp EXCEPT ![self] = ExceptionResp]
            /\ quiet' = Responded(self, 500)
            /\ UNCHANGED <<data_out, delivered>>
       ELSE /\ data_out' = [data_out EXCEPT ![pid[self]] = None]
            /\ resp' = [resp EXCEPT ![self] = CompletedResp(buf[self])]
            /\ delivered' = [delivered EXCEPT ![pid[self]] =
                                IF @ < 2 THEN @ + 1 ELSE @]
            /\ quiet' = [q \in Pollers |->
                            IF q = self THEN Responded(self, 200)[q]
                            ELSE Disturb(pid[self], self)[q]]
    /\ pc' = [pc EXCEPT ![self] = "done"]
    /\ obs' = [obs EXCEPT ![self] = NotFound]
    /\ buf' = [buf EXCEPT ![self] = None]
    /\ UNCHANGED <<groups, data_in, svars, pid, after>>

\* ------------------------------------------------------- the collaborators
\* The platform schedules the requested group: it becomes visible to get.
GroupAppears(j) ==
    /\ groups[j].vis = "requested"
    /\ groups' = [groups EXCEPT ![j] =
                     [vis |-> "exists", state |-> "Running", detail |-> None,
                      deleting |-> FALSE]]
    /\ quiet' = Disturb(j, None)
    /\ UNCHANGED <<data_in, data_out, svars, pvars, delivered, after>>

Running(j) == groups[j].vis = "exists" /\ groups[j].state = "Running"

\* The container (python3 docker_run.py <run_id>.json, mounted on the share)
\* may remove its input file once it has read it.
ContainerConsumesInput(j) ==
    /\ Running(j)
    /\ data_in[j] # NoFile
    /\ data_in' = [data_in EXCEPT ![j] = NoFile]
    /\ quiet' = Disturb(j, None)
    /\ UNCHANGED <<groups, data_out, svars, pvars, delivered, after>>

\* The container writes data_out/<run_id>.json.
ContainerWritesOutput(j, o) ==
    /\ Running(j)
    /\ data_out[j] = None
    /\ data_out' = [data_out EXCEPT ![j] = o]
    /\ quiet' = Disturb(j, None)
    /\ UNCHANGED <<groups, data_in, svars, pvars, delivered, after>>

\* The container exits (restart_policy Never): Completed after it wrote its
\* output, Error at any time.
ContainerExits(j, detail) ==
    /\ Running(j)
    /\ detail = "Completed" => data_out[j] # None
    /\ groups' = [groups EXCEPT ![j].state = "Terminated", ![j].detail = detail]
    /\ quiet' = Disturb(j, None)
    /\ UNCHANGED <<data_in, data_out, svars, pvars, delivered, after>>

\* A begin_delete takes effect: the group is gone.
GroupDeleted(j) ==
    /\ groups[j].vis = "exists"
    /\ groups[j].deleting
    /\ groups' = [groups EXCEPT ![j] = NoGroup]
    /\ quiet' = Disturb(j, None)
    /\ UNCHANGED <<data_in, data_out, svars, pvars, delivered, after>>

\* ---------------------------------------------------------- specification
\* The requests of the polling specifications: one-record batches, one valid
\* and one with a key missing, on one url.
FewBodies ==
    {b \in Bodies :
        /\ b.layout = "compact"
        /\ b.recs \in {<<expected_keys>>, <<{"comment_id", "comment_text"}>>}}
OneUrl == {<<"https://host/api/", "StartContainerInstance">>}

\* What the containers write: any content, or one content per job.
AnyOutput == IDs \X Outputs
JobOutput == {<<j, "out" \o ToString(j)>> : j \in IDs}

Submits(bodies, urls) ==
    \/ \E body \in bodies, url \in urls : SubmitStart(body, url)
    \/ SubmitUpload
    \/ SubmitCreate

Polls(pollers, history) ==
    \/ \E self \in pollers, run_id \in IDs : PollStart(self, run_id, history)
    \/ \E self \in pollers : PollGet(self)
    \/ \E self \in pollers : PollCheck(self)
    \/ \E self \in pollers : PollBeginDelete(self)
    \/ \E self \in pollers : PollDownload(self)
    \/ \E self \in pollers : PollDeleteFile(self)

Containers(outputs) ==
    \/ \E j \in IDs : GroupAppears(j)
    \/ \E j \in IDs : ContainerConsumesInput(j)
    \/ \E w \in outputs : ContainerWritesOutput(w[1], w[2])
    \/ \E j \in IDs, detail \in {"Completed", "Error"} : ContainerExits(j, detail)

Deletions ==
    \E j \in IDs : GroupDeleted(j)

\* Concurrent polls of the jobs of a few submissions.
Next ==
    Submits(FewBodies, OneUrl) \/ Polls(Pollers, FALSE)
        \/ Containers(JobOutput) \/ Deletions
Spec == Init /\ [][Next]_vars

\* One client polling, one request at a time, with the history of its polls.
NextOne ==
    Submits(FewBodies, OneUrl) \/ Polls({"p1"}, TRUE)
        \/ Containers(AnyOutput) \/ Deletions
SpecOne == Init /\ [][NextOne]_vars

\* Every body and url submitted; nobody polls.
NextSubmit == Submits(Bodies, StartUrls) \/ Containers(JobOutput)
SpecSubmit == Init /\ [][NextSubmit]_vars

\* Containers that leave their input file where it is.
ContainersKeepingInput(outputs) ==
    \/ \E j \in IDs : GroupAppears(j)
    \/ \E w \in outputs : ContainerWritesOutput(w[1], w[2])
    \/ \E j \in IDs, detail \in {"Completed", "Error"} : ContainerExits(j, detail)

\* Nothing but the function app touches data_in, and the creation of the
\* container group can fail after the upload.
NextOrphan ==
    Submits(FewBodies, OneUrl) \/ SubmitCreateFails \/ Polls(Pollers, FALSE)
        \/ ContainersKeepingInput(JobOutput) \/ Deletions
SpecOrphan == Init /\ [][NextOrphan]_vars

\* Valid one-record requests in either layout of the bytes.
LayoutBodies == {b \in Bodies : b.recs = <<expected_keys>>}

\* One client polling the jobs of requests whose bytes differ in layout.
NextStage ==
    Submits(LayoutBodies, OneUrl) \/ Polls({"p1"}, FALSE)
        \/ Containers(JobOutput) \/ Deletions
SpecStage == Init /\ [][NextStage]_vars

\* One client that keeps polling: a request that has begun runs to its
\* response, and the client begins a poll of each job again and again.
\* Nothing but the function app touches data_in.
NextLive ==
    Submits(FewBodies, OneUrl) \/ Polls({"p1"}, FALSE)
        \/ ContainersKeepingInput(JobOutput) \/ Deletions
KeepsPolling ==
    /\ \A j \in IDs : SF_vars(PollStart("p1", j, FALSE))
    /\ WF_vars(PollGet("p1"))
    /\ WF_vars(PollCheck("p1"))
    /\ WF_vars(PollBeginDelete("p1"))
    /\ WF_vars(PollDownload("p1"))
    /\ WF_vars(PollDeleteFile("p1"))
SpecLive == Init /\ [][NextLive]_vars /\ KeepsPolling

\* ------------------------------------------------------------ properties
\* The external state of one job.
Job(k) == <<groups[k], data_in[k], data_out[k]>>

\* The request of poller p responds in this step.
Responds(p) == pc[p] # "done" /\ pc'[p] = "done"

\* What a container state amounts to for the decision.
Phase(c) ==
    IF ~c.found THEN "absent"
    ELSE IF c.state # "Terminated" THEN "running"
    ELSE IF c.detail = "Completed" THEN "completed"
    ELSE "other"

\* The container state of job j as a get would report it.
Reported(j) ==
    IF groups[j].vis = "exists"
    THEN [found |-> TRUE, state |-> groups[j].state, detail |-> groups[j].detail]
    ELSE [found |-> FALSE, state |-> None, detail |-> None]

\* The container state the responding request of p decided on.
Seen(p) == IF pc[p] = "get" THEN Phase(Reported(pid[p])) ELSE Phase(obs[p])

HasBadRecord(recs) == \E i \in DOMAIN recs : recs[i] # expected_keys

\* C1: round trip.  Once the container of J has terminated Completed with
\* output O written, the next poll of J answers 200 with body O, and every
\* poll of J that begins after that answer answers 404.  (Stated for one
\* client polling at a time: SpecOne.)
C1_RoundTrip ==
    [][\A p \in Pollers : Responds(p) =>
          /\ after[p] => resp'[p].status = 404
          /\ (~after[p] /\ Seen(p) = "completed") =>
                /\ data_out[pid[p]] # None
                /\ resp'[p] = [status |-> 200, body |-> <<data_out[pid[p]]>>]]_vars

\* C2: at most one delivery.  A poll answers 200 only if no poll of the same
\* job answered 200 before, and a poll that saw the job Completed and does
\* not deliver ends in 404 or 500.
C2_AtMostOnce ==
    [][\A p \in Pollers : Responds(p) =>
          \/ resp'[p].status = 200 /\ delivered[pid[p]] = 0
          \/ /\ resp'[p].status # 200
             /\ Seen(p) = "completed" => resp'[p].status \in {404, 500}]_vars

\* Two polls of one completed job raced: both had downloaded the output
\* when one of them delivered it; the other is about to delete the file.
C2_Witness ==
    \E p, q \in Pollers :
        /\ p # q /\ pid[p] = pid[q] /\ pc[p] = "done" /\ pc[q] = "rmfile"
        /\ resp[p].status = 200 /\ resp[p].body = <<buf[q]>>
        /\ delivered[pid[p]] = 1

\* C3: a batch with a record whose key set is not the expected one is
\* rejected wherever the record sits; the request never reaches the upload or
\* the creation, and nothing exists under its run id.
C3_RejectedNoEffects ==
    (spc # "idle" /\ HasBadRecord(sreq.body.recs)) =>
        /\ spc = "done"
        /\ sresp.status \notin {200, 202}
        /\ data_in[sid] = NoFile
        /\ groups[sid] = NoGroup

\* A two-record batch whose second record is the bad one was rejected while
\* the job of an earlier submission is staged.
C3_Witness ==
    /\ spc = "done" /\ Len(sreq.body.recs) = 2
    /\ sreq.body.recs[1] = expected_keys /\ sreq.body.recs[2] # expected_keys
    /\ sresp.status = 500
    /\ \E k \in IDs : data_in[k] # NoFile

\* The poll url of a start url: its route segment replaced.
ExpectedPollUrl(url, run_id) ==
    <<url[1], "GetResults/" \o ToString(run_id)>> \o SubSeq(url, 3, Len(url))

\* C4: a batch of records that all have the expected key set is accepted with
\* a run id no earlier submission drew, and is answered 202 with the request
\* url in which the route name is replaced by GetResults/<run id>.
C4_ValidAccepted ==
    [][/\ (spc \in {"idle", "done"} /\ svars' # svars
           /\ ~HasBadRecord(sreq'.body.recs)) =>
               spc' = "upload" /\ sid' \notin used
       /\ (spc = "create" /\ spc' # "create") =>
               /\ spc' = "done"
               /\ sresp' = [status |-> 202,
                            body |-> ExpectedPollUrl(sreq.url, sid)]]_vars

\* The second submission was answered 202, on the url with a query string.
C4_Witness ==
    /\ spc = "done" /\ sresp.status = 202 /\ Cardinality(used) >= 2
    /\ Len(sreq.url) = 3 /\ Len(sreq.body.recs) = 2
    /\ sresp.body = <<"https://host/api/", "GetResults/" \o ToString(sid), "?code=key">>

\* C5: a poll that repeats a poll answered 202, with the external state of
\* the job unchanged since that poll began, answers the same 202 and url.
C5_PendingIdempotent ==
    \A p \in Pollers :
        (pc[p] = "done" /\ quiet[p] = "repeat") => resp[p] = PendingResp(pid[p])

\* A repeated poll answered 202 while the group is still not found and the
\* input file is there.
C5_Witness ==
    \E p \in Pollers :
        /\ pc[p] = "done" /\ quiet[p] = "repeat" /\ resp[p].status = 202
        /\ groups[pid[p]].vis = "requested" /\ data_in[pid[p]] # NoFile

\* C6: a poll that finds the container terminated with an outcome other than
\* Completed answers 500 in that step and changes nothing: the group, the
\* input file and the output file are as before.
C6_FailureNoCleanup ==
    [][\A p \in Pollers :
          (pc[p] = "get" /\ pc'[p] # "get" /\ Phase(Reported(pid[p])) = "other") =>
              /\ pc'[p] = "done"
              /\ resp'[p] = [status |-> 500, body |-> <<"Error during processing">>]
              /\ ext' = ext]_vars

\* A poll answered 500 for a failed run; the group is still there, with the
\* partial output.
C6_Witness ==
    \E p \in Pollers :
        /\ pc[p] = "done" /\ resp[p] = FailedResp
        /\ groups[pid[p]].vis = "exists" /\ groups[pid[p]].detail = "Error"
        /\ ~groups[pid[p]].deleting
        /\ data_out[pid[p]] # None

\* C7: a poll of an identifier no submission has drawn answers 404.
C7_UnknownId ==
    \A p \in Pollers :
        (pc[p] = "done" /\ pid[p] \notin used) =>
            resp[p] = [status |-> 404, body |-> <<"File already collected">>]

\* An unknown identifier was polled while another job is staged and running.
C7_Witness ==
    \E p \in Pollers :
        /\ pc[p] = "done" /\ pid[p] \notin used /\ resp[p].status = 404
        /\ \E k \in IDs : data_in[k] # NoFile /\ groups[k].vis = "exists"

\* C8: a rejected batch is answered with a client error (4xx).
C8_ClientError ==
    (spc = "done" /\ HasBadRecord(sreq.body.recs)) => sresp.status \in 400..499

\* The decision of a poll of j as a function of j's own state alone: the
\* container state it saw, and j's files when it responds.
OwnDecision(seen, j) ==
    CASE seen = "absent" ->
            IF data_in[j] = NoFile
            THEN [status |-> 404, body |-> <<"File already collected">>]
            ELSE [status |-> 202, body |-> PollUrl(j)]
      [] seen = "running" -> [status |-> 202, body |-> PollUrl(j)]
      [] seen = "other" ->
            [status |-> 500, body |-> <<"Error during processing">>]
      [] seen = "completed" ->
            IF data_out[j] = None
            THEN [status |-> 500, body |-> <<"unhandled exception">>]
            ELSE [status |-> 200, body |-> <<data_out[j]>>]

\* C9: job isolation.  A step of a request for job J leaves the container
\* group, the input file and the output file of every other job as they
\* were, and the answer of a poll is determined by its own job's state.
C9_JobIsolation ==
    [][/\ \A p \in Pollers : pc'[p] # pc[p] =>
             \A k \in IDs \ {pid'[p]} : Job(k)' = Job(k)
       /\ svars' # svars =>
             \A k \in IDs \ {sid'} : Job(k)' = Job(k)
       /\ \A p \in Pollers : Responds(p) =>
             resp'[p] = OwnDecision(Seen(p), pid[p])]_vars

\* A poll collected one job while the other job is staged and its container
\* is running.
C9_Witness ==
    \E p \in Pollers :
        /\ pc[p] = "done" /\ resp[p].status = 200
        /\ \E k \in IDs \ {pid[p]} :
              /\ data_in[k] # NoFile
              /\ groups[k].vis = "exists" /\ groups[k].state = "Running"

\* The decision table, in order of precedence.
Table(seen, input) ==
    IF seen = "absent" THEN (IF input THEN "Pending" ELSE "AlreadyCollected")
    ELSE IF seen = "running" THEN "Pending"
    ELSE IF seen = "other" THEN "Failed"
    ELSE "Completed"

\* The decision an answer carries.
DecisionOf(r, j) ==
    IF r = [status |-> 202, body |-> PollUrl(j)] THEN "Pending"
    ELSE IF r = [status |-> 404, body |-> <<"File already collected">>]
         THEN "AlreadyCollected"
    ELSE IF r = [status |-> 500, body |-> <<"Error during processing">>]
         THEN "Failed"
    ELSE IF r.status = 200 THEN "Completed"
    ELSE "Error"

C11_CleanupOrder ==
    [][\A p \in Pollers :
          LET j == pid[p]
              requested(g) == g[j].vis # "exists" \/ g[j].deleting
          IN  /\ (pc[p] = "get" /\ pc'[p] # "get"
                    /\ Phase(Reported(j)) = "completed") =>
                      pc'[p] = "delete" /\ ext' = ext /\ resp'[p] = NoResp
              /\ (pc[p] = "delete" /\ pc'[p] # "delete") =>
                      /\ pc'[p] = "download" /\ resp'[p] = NoResp
                      /\ requested(groups') /\ groups'[j].vis = groups[j].vis
                      /\ data_out' = data_out /\ buf'[p] = None
              /\ (pc[p] = "download" /\ pc'[p] # "download") =>
                      \/ /\ pc'[p] = "rmfile" /\ resp'[p] = NoResp
                         /\ data_out[j] # None /\ buf'[p] = data_out[j]
                         /\ data_out' = data_out
                      \/ /\ pc'[p] = "done" /\ resp'[p].status = 500
                         /\ data_out[j] = None /\ requested(groups')
              /\ (pc[p] = "rmfile" /\ pc'[p] # "rmfile") =>
                      /\ pc'[p] = "done" /\ requested(groups')
                      /\ \/ /\ resp'[p] = [status |-> 200, body |-> <<buf[p]>>]
                            /\ data_out[j] # None /\ data_out'[j] = None
                         \/ /\ resp'[p].status = 500 /\ data_out[j] = None
              /\ (Responds(p) /\ resp'[p].status = 200) => pc[p] = "rmfile"
              /\ pc'[p] \in {"download", "rmfile"} => requested(groups')]_vars

\* Two polls of a completed job: one answered 200 and left no output file,
\* the other failed at its download; the deletion of the group is requested
\* and has not taken effect yet.
C11_Witness ==
    \E p, q \in Pollers :
        /\ p # q /\ pid[p] = pid[q] /\ pc[p] = "done" /\ pc[q] = "done"
        /\ resp[p].status = 200 /\ resp[q] = ExceptionResp
        /\ data_out[pid[p]] = None
        /\ groups[pid[p]].vis = "exists" /\ groups[pid[p]].deleting

\* No request is working on job j and its container is not running.
Steady(j) ==
    /\ groups[j].vis = "exists" => groups[j].state = "Terminated"
    /\ \A p \in Pollers : pid[p] = j => pc[p] \in {"idle", "done"}
    /\ sid = j => spc \in {"idle", "done"}

\* C12: the collected state leaves no artifacts.  Once a poll has answered
\* 200 for job J, neither data_in/J.json nor data_out/J.json is present; and
\* in no steady state of J are its input file and its output file both
\* present.
C12_NoArtifactsLeft ==
    \A j \in IDs :
        /\ delivered[j] > 0 => data_in[j] = NoFile /\ data_out[j] = None
        /\ Steady(j) => ~(data_in[j] # NoFile /\ data_out[j] # None)

C14_AbsenceNeverError ==
    \A p \in Pollers :
        pc[p] = "done" =>
            DecisionOf(resp[p], pid[p]) \in
                {"Pending", "Completed", "Failed", "AlreadyCollected"}

\* C15: no premature 404.  When nobody but the function app touches data_in,
\* the input file of a job stays where the upload put it, a submission that
\* answers 202 has uploaded it, and no poll of a job whose input file is
\* there answers 404: in particular not while the container group is not
\* found because the platform has not scheduled it yet.
C15_NoPremature404 ==
    [][/\ \A j \in IDs : data_in[j] # NoFile => data_in'[j] = data_in[j]
       /\ (spc # "done" /\ spc' = "done" /\ sresp'.status = 202) =>
             data_in'[sid] # NoFile
       /\ \A p \in Pollers :
             (Responds(p) /\ data_in[pid[p]] # NoFile) =>
                 resp'[p].status # 404]_vars

\* A poll of the job just submitted answered 202 while its container group
\* is requested and not scheduled yet.
C15_Witness ==
    \E p \in Pollers :
        /\ spc = "done" /\ sresp.status = 202 /\ pid[p] = sid
        /\ pc[p] = "done" /\ resp[p] = PendingResp(sid)
        /\ groups[sid].vis = "requested" /\ data_in[sid] # NoFile

\* C16: no rollback on a partial submission failure.  When the upload of a
\* submission has succeeded and the creation of the container group then
\* fails, the submission ends in an error and the input file written for its
\* run id is still in data_in afterwards, with the bytes of the request.
C16_NoRollback ==
    [][/\ (spc = "create" /\ spc' = "done" /\ groups'[sid] = NoGroup) =>
             /\ sresp'.status \in 500..599
             /\ data_in[sid] = sreq.body /\ data_in' = data_in
       /\ (spc' = "done" /\ sresp'.body = <<"unhandled exception">>) =>
             /\ data_in'[sid'] = sreq'.body /\ data_in'[sid'] # NoFile
             /\ groups'[sid'] = NoGroup]_vars

\* The second submission failed at the creation of its container group: its
\* input file is in data_in and it has no group, while the job of the first
\* submission is running.
C16_Witness ==
    /\ spc = "done" /\ sresp.status = 500
    /\ sresp.body = <<"unhandled exception">>
    /\ data_in[sid] = sreq.body /\ data_in[sid] # NoFile
    /\ groups[sid] = NoGroup
    /\ \E k \in IDs \ {sid} : groups[k].vis = "exists" /\ data_in[k] # NoFile

\* C17: verbatim staging under one identifier.  A submission that answers
\* 202 with run id J has put under J in data_in exactly the bytes of its
\* request body (not the parsed batch serialised again) and has requested the
\* container group of J and no other; a poll of J reads the group of J, looks
\* for the input file of J and downloads and deletes the output file of J.
C17_VerbatimStaging ==
    [][/\ (spc = "upload" /\ spc' # "upload") =>
             /\ data_in'[sid] = sreq.body /\ sid' = sid
             /\ \A k \in IDs \ {sid} : Job(k)' = Job(k)
       /\ (spc = "create" /\ spc' = "done" /\ sresp'.status = 202) =>
             /\ data_in'[sid] = sreq.body
             /\ sresp'.body = PollUrl(sid)
             /\ groups[sid].vis = "none" /\ groups'[sid].vis = "requested"
             /\ \A k \in IDs \ {sid} : Job(k)' = Job(k)
       /\ \A p \in Pollers :
             LET j == pid[p] IN
             /\ (pc[p] = "get" /\ pc'[p] # "get") =>
                   pc'[p] = CASE Phase(Reported(j)) = "absent" -> "check"
                              [] Phase(Reported(j)) = "completed" -> "delete"
                              [] OTHER -> "done"
             /\ (pc[p] = "check" /\ pc'[p] # "check") =>
                   (resp'[p].status = 404 <=> data_in[j] = NoFile)
             /\ (pc[p] = "delete" /\ pc'[p] # "delete") =>
                   /\ groups[j].vis = "exists" => groups'[j].deleting
                   /\ \A k \in IDs \ {j} : groups'[k] = groups[k]
             /\ (pc[p] = "download" /\ pc'[p] = "rmfile") =>
                   buf'[p] = data_out[j]
             /\ (pc[p] = "rmfile" /\ pc'[p] # "rmfile") =>
                   /\ data_out'[j] = None
                   /\ \A k \in IDs \ {j} : data_out'[k] = data_out[k]]_vars

\* The job of a request with spaced bytes was submitted, run and collected:
\* its input file still holds the spaced bytes, the poll of its run id
\* answered 200 with the output of that job, and the other job is staged.
C17_Witness ==
    /\ spc = "done" /\ sresp.status = 202 /\ sreq.body.layout = "compact"
    /\ \E j \in IDs \ {sid} :
          /\ data_in[j] = [layout |-> "spaced", recs |-> <<expected_keys>>]
          /\ data_in[sid] = sreq.body
          /\ pc["p1"] = "done" /\ pid["p1"] = j
          /\ resp["p1"] = [status |-> 200, body |-> <<"out" \o ToString(j)>>]

\* The submission of job j has answered 202.
Submitted(j) == data_in[j] # NoFile /\ ~(sid = j /\ spc = "create")

\* The container of job j has terminated Completed with its output written
\* and the output has not been delivered.
ReadyToCollect(j) ==
    /\ Submitted(j) /\ delivered[j] = 0
    /\ groups[j].vis = "exists" /\ groups[j].state = "Terminated"
    /\ groups[j].detail = "Completed" /\ data_out[j] # None

\* C18: eventual delivery.  With one client that keeps polling and nobody
\* else touching the files, a submitted job whose container has terminated
\* Completed with its output written is eventually answered 200 with the
\* bytes of the output; every poll of the job answered before that (the
\* container not having failed) is answered 202.
C18_EventualDelivery ==
    /\ [][\A p \in Pollers :
            LET j == pid[p] IN
            (Responds(p) /\ Submitted(j) /\ delivered[j] = 0
                /\ groups[j].detail # "Error") =>
                    \/ resp'[p] = PendingResp(j)
                    \/ /\ resp'[p] = [status |-> 200, body |-> <<data_out[j]>>]
                       /\ data_out[j] # None /\ delivered'[j] = 1]_vars
    /\ \A j \in IDs : ReadyToCollect(j) ~> (delivered[j] = 1)

\* The client's poll delivered the output of a job: the output file is gone,
\* the input file is still there and the deletion of the group is requested,
\* while the other job waits to be scheduled.
C18_Witness ==
    /\ pc["p1"] = "done" /\ resp["p1"].status = 200
    /\ delivered[pid["p1"]] = 1 /\ data_out[pid["p1"]] = None
    /\ data_in[pid["p1"]] # NoFile
    /\ groups[pid["p1"]].vis = "exists" /\ groups[pid["p1"]].deleting
    /\ \A k \in IDs \ {pid["p1"]} : groups[k].vis = "requested"

\* The container group of job j is gone or was never created, its input file
\* is in data_in, and no submission is about to request the group.
Orphan(j) ==
    /\ groups[j].vis = "none" /\ data_in[j] # NoFile
    /\ ~(sid = j /\ spc = "create")

\* C19: orphaned or stranded jobs poll as Pending for ever.  While the
\* container group of job J is not found and the input file of J is there, a
\* poll of J is answered 202 with the poll url and changes nothing; a job
\* whose upload succeeded and whose group was never created (or is deleted)
\* stays without group and with its input file unless something outside the
\* function app changes it, so no poll that begins in that state reaches 200,
\* 404 or 500.
C19_OrphanPending ==
    [][/\ \A p \in Pollers :
             LET j == pid[p] IN
             /\ (pc[p] = "get" /\ pc'[p] # "get" /\ groups[j].vis # "exists") =>
                   pc'[p] = "check" /\ resp'[p] = NoResp /\ ext' = ext
             /\ (pc[p] = "check" /\ pc'[p] # "check" /\ data_in[j] # NoFile) =>
                   /\ pc'[p] = "done" /\ ext' = ext
                   /\ resp'[p] = [status |-> 202, body |-> PollUrl(j)]
             /\ (pc[p] \in {"get", "check"} /\ pc'[p] = "done" /\ Orphan(j)) =>
                   resp'[p].status \notin {200, 404, 500}
       /\ \A j \in IDs :
             Orphan(j) =>
                 /\ Orphan(j)'
                 /\ groups'[j] = groups[j] /\ data_in'[j] = data_in[j]]_vars

\* The creation of the container group failed after the upload; both clients
\* have polled the orphaned job since and were answered 202.
C19_Witness ==
    /\ spc = "done" /\ sresp.status = 500 /\ Orphan(sid)
    /\ \A p \in Pollers :
          /\ pid[p] = sid /\ pc[p] = "done"
          /\ resp[p] = [status |-> 202, body |-> PollUrl(sid)]

====
